---------------------------- MODULE Spec2Model ----------------------------
(***************************************************************************)
(* Readthrough-cache policy of src/index.js: handleRequest calls fetch()    *)
(* with a CacheOverride whose beforeSend, afterSend and bodyTransformFn     *)
(* callbacks decide what is sent to the backend 'origin' and what enters    *)
(* the cache.  The callbacks are translated from the source.  The           *)
(* readthrough cache that invokes them is not part of the repository: it is *)
(* modelled from the contract the source comments state and, where they are *)
(* silent, from the specification (sections 4.3, 4.4 and 7).                *)
(***************************************************************************)
EXTENDS Naturals, Sequences, FiniteSets, TLC

(***************************************************************************)
(* Bounds and input domains.                                                *)
(***************************************************************************)
\* Inbound fetch events handled in one behaviour.
MaxRequests == 3

\* Concurrent invocations of handleRequest.
Reqs == {"r1", "r2"}

\* resp.headers.get('Content-Type'); NoCT is the null of an absent header.
NoCT == "null"
ContentTypes ==
    {"image", "text/html", "application/xml", "application/json",
     "text/plain", NoCT}

\* Lifetimes the cache derived from the origin's own headers, before afterSend.
OriginTtls == {0, 3600}

\* Origin bodies: two JSON objects with both fields, one with neither, and
\* bytes that are no JSON at all.
JsonAnn == "{\"firstName\":\"Ann\",\"lastName\":\"Lee\"}"
JsonBob == "{\"firstName\":\"Bob\",\"lastName\":\"Ray\"}"
JsonEmpty == "{}"
NotJson == "<oops"
NoBody == ""
Bodies == {JsonAnn, JsonBob, JsonEmpty, NotJson}

Statuses == {200}
NotModified == 304

(***************************************************************************)
(* Program constants of afterSend and beforeSend.                           *)
(***************************************************************************)
TtlImage == 67
TtlHtml == 321
TtlDefault == 2
AuthHeader == "Foo"
NoAuth == "none"

\* The three values afterSend returns in `cache`.
CacheUnset == "undefined"
CacheFalse == "false"
CacheUncacheable == "uncacheable"

(***************************************************************************)
(* Responses.  A response is its status, the two headers the policy reads,  *)
(* its lifetime and its body.                                               *)
(***************************************************************************)
Resp(status, ct, private, ttl, body) ==
    [status |-> status, ct |-> ct, private |-> private, ttl |-> ttl,
     body |-> body]

NoResp == Resp(0, NoCT, FALSE, 0, NoBody)

FreshResponses ==
    {Resp(s, ct, p, t, b) :
        s \in Statuses, ct \in ContentTypes, p \in BOOLEAN,
        t \in OriginTtls, b \in Bodies}

\* A 304 carries headers and no body.
NotModifiedResponses ==
    {Resp(NotModified, ct, p, t, NoBody) :
        ct \in ContentTypes, p \in BOOLEAN, t \in OriginTtls}

(***************************************************************************)
(* beforeSend(req): req.headers.set('Authorization', authHeader).           *)
(***************************************************************************)
\* Faulty variant: the header is built but never set on the request.
beforeSend_NoAuth(req) == req

\* Faulty variant: the callback also rewrites the request method.
beforeSend_ChangesMethod(req) ==
    [req EXCEPT !.auth = AuthHeader, !.method = "POST"]

beforeSend(req) == [req EXCEPT !.auth = AuthHeader]

(***************************************************************************)
(* afterSend(resp): the Content-Type switch, the private-header check and   *)
(* the declaration of the body transform, in the order of the source.       *)
(* The result holds the response as mutated (ttl, Content-Type) and the      *)
(* returned object {cache, bodyTransformFn}; bodyTransformFn is TRUE when    *)
(* the function is returned and FALSE when it is undefined.                 *)
(***************************************************************************)
\* Faulty variant: the `break` after case 'image' is missing, so the image case
\* falls through to the text/html assignment.
SwitchTtl_Fallthrough(resp) ==
    CASE resp.ct = "image" -> TtlHtml
      [] resp.ct = "text/html" -> TtlHtml
      [] resp.ct = "application/xml" -> resp.ttl
      [] OTHER -> TtlDefault

\* Faulty variant: the text/html case is missing, so text/html takes the default.
SwitchTtl_HtmlDefault(resp) ==
    CASE resp.ct = "image" -> TtlImage
      [] resp.ct = "application/xml" -> resp.ttl
      [] OTHER -> TtlDefault

SwitchTtl(resp) ==
    CASE resp.ct = "image" -> TtlImage
      [] resp.ct = "text/html" -> TtlHtml
      [] resp.ct = "application/xml" -> resp.ttl
      [] OTHER -> TtlDefault

\* Faulty variant: the application/xml case does not set cache = false.
SwitchCache_NoXml(resp) == CacheUnset

SwitchCache(resp) ==
    IF resp.ct = "application/xml" THEN CacheFalse ELSE CacheUnset

\* Faulty variant: the private-header check only fills in a decision that is unset.
PrivateCache_OnlyWhenUnset(resp, cache) ==
    IF resp.private /\ cache = CacheUnset THEN CacheUncacheable ELSE cache

PrivateCache(resp, cache) ==
    IF resp.private THEN CacheUncacheable ELSE cache

DeclaresTransform(resp) == resp.ct = "application/json"

RewriteContentType(resp) ==
    IF DeclaresTransform(resp) THEN "text/html" ELSE resp.ct

\* Faulty variant: the transform is declared for every body that looks like
\* JSON, whatever the Content-Type.
afterSend_SniffsBody(resp) ==
    LET json == resp.body \in {JsonAnn, JsonBob, JsonEmpty}
    IN  [resp |-> [resp EXCEPT !.ttl = SwitchTtl(resp),
                               !.ct = IF json THEN "text/html" ELSE resp.ct],
         cache |-> PrivateCache(resp, SwitchCache(resp)),
         bodyTransformFn |-> json]

\* Faulty variant: the Content-Type is rewritten before the switch reads it.
afterSend_RewriteFirst(resp) ==
    LET rewritten == [resp EXCEPT !.ct = RewriteContentType(resp)]
    IN  [resp |-> [rewritten EXCEPT !.ttl = SwitchTtl(rewritten)],
         cache |-> PrivateCache(resp, SwitchCache(rewritten)),
         bodyTransformFn |-> DeclaresTransform(resp)]

afterSend(resp) ==
    [resp |-> [resp EXCEPT !.ttl = SwitchTtl(resp),
                           !.ct = RewriteContentType(resp)],
     cache |-> PrivateCache(resp, SwitchCache(resp)),
     bodyTransformFn |-> DeclaresTransform(resp)]

NoHook == [resp |-> NoResp, cache |-> CacheUnset, bodyTransformFn |-> FALSE]

(***************************************************************************)
(* bodyTransformFn(bytes): decode, JSON.parse, read firstName and lastName, *)
(* build `<div>${firstName} ${lastName}</div>`.  JSON.parse throws on text  *)
(* that is no JSON; a field the object lacks reads as undefined, which the   *)
(* template prints as "undefined".                                          *)
(***************************************************************************)
\* Faulty variant: a lenient parser that reads text that is no JSON as an empty
\* object instead of throwing.
JSONParse_Lenient(str) ==
    CASE str = JsonAnn ->
           [ok |-> TRUE, firstName |-> "Ann", lastName |-> "Lee"]
      [] str = JsonBob ->
           [ok |-> TRUE, firstName |-> "Bob", lastName |-> "Ray"]
      [] OTHER ->
           [ok |-> TRUE, firstName |-> "undefined", lastName |-> "undefined"]

JSONParse(str) ==
    CASE str = JsonAnn ->
           [ok |-> TRUE, firstName |-> "Ann", lastName |-> "Lee"]
      [] str = JsonBob ->
           [ok |-> TRUE, firstName |-> "Bob", lastName |-> "Ray"]
      [] str = JsonEmpty ->
           [ok |-> TRUE, firstName |-> "undefined", lastName |-> "undefined"]
      [] OTHER ->
           [ok |-> FALSE, firstName |-> "", lastName |-> ""]

\* Faulty variant: the parse is wrapped in a try/catch that returns the bytes it was
\* given.
bodyTransformFn_NoThrow(bytes) ==
    LET json == JSONParse(bytes)
    IN  IF json.ok
        THEN [threw |-> FALSE,
              bytes |-> "<div>" \o json.firstName \o " " \o json.lastName
                        \o "</div>"]
        ELSE [threw |-> FALSE, bytes |-> bytes]

\* Faulty variant: the template prints the two names in the other order.
bodyTransformFn_Swapped(bytes) ==
    LET json == JSONParse(bytes)
    IN  IF json.ok
        THEN [threw |-> FALSE,
              bytes |-> "<div>" \o json.lastName \o " " \o json.firstName
                        \o "</div>"]
        ELSE [threw |-> TRUE, bytes |-> NoBody]

bodyTransformFn(bytes) ==
    LET json == JSONParse(bytes)
    IN  IF json.ok
        THEN [threw |-> FALSE,
              bytes |-> "<div>" \o json.firstName \o " " \o json.lastName
                        \o "</div>"]
        ELSE [threw |-> TRUE, bytes |-> NoBody]


(***************************************************************************)
(* The readthrough cache.  One cache key is modelled: every request of a    *)
(* behaviour is for the same object.                                        *)
(***************************************************************************)
VARIABLES
    cache,      \* what the cache holds for the key
    pc,         \* where each invocation of handleRequest stands
    event,      \* event.request of each invocation
    out,        \* the request each invocation forwards to the backend
    started,    \* fetch events received so far
    calls,      \* how often each callback ran and the origin answered
    last        \* the outcome of the request that completed last

vars == <<cache, pc, event, out, started, calls, last>>

\* The cache holds nothing, a hit-for-pass marker, or an entry.
Entry(resp, body, transformed) ==
    [kind |-> "entry", status |-> resp.status, ct |-> resp.ct,
     private |-> resp.private, ttl |-> resp.ttl, body |-> body,
     fresh |-> TRUE, transformed |-> transformed]

Empty == [Entry(NoResp, NoBody, FALSE) EXCEPT !.kind = "none", !.fresh = FALSE]

HitForPassMarker == [Empty EXCEPT !.kind = "hit-for-pass"]

\* The response a cached entry is served as.
Served(entry) ==
    Resp(entry.status, entry.ct, entry.private, entry.ttl, entry.body)

\* Faulty variant: 'uncacheable' is not recognised and the default applies.
Decision_UncacheableStores(hook) ==
    IF hook.cache = CacheFalse THEN "skip" ELSE "store"

\* The decision the returned `cache` value stands for: false is "do not
\* store", 'uncacheable' is hit-for-pass, and undefined leaves the default,
\* which stores.
Decision(hook) ==
    CASE hook.cache = CacheFalse -> "skip"
      [] hook.cache = CacheUncacheable -> "hit-for-pass"
      [] OTHER -> "store"

\* The executor runs a declared transform on a fresh body that is being
\* stored.
TransformRuns(hook) == hook.bodyTransformFn /\ Decision(hook) = "store"

\* A transform that throws downgrades the decision to skip.
EffectiveDecision(hook, threw) ==
    IF threw THEN "skip" ELSE Decision(hook)

\* What the caller receives for a fresh origin response: the original
\* response when the transform threw, the stored response when one was
\* stored, and otherwise the candidate response as afterSend left it.
ClientResponse(cand, hook, threw, body) ==
    IF threw THEN cand ELSE [hook.resp EXCEPT !.body = body]

\* Faulty variant: the transform runs but the original backend body is what
\* is saved to the cache.
Execute_StoresRawBody(c, cand) ==
    LET hook == afterSend(cand)
        ran == TransformRuns(hook)
        t == IF ran THEN bodyTransformFn(cand.body)
                    ELSE [threw |-> FALSE, bytes |-> cand.body]
        decision == EffectiveDecision(hook, t.threw)
    IN  [hook |-> hook, ran |-> ran, threw |-> t.threw,
         decision |-> decision,
         client |-> ClientResponse(cand, hook, t.threw, t.bytes),
         cache |-> CASE decision = "store" ->
                          Entry(hook.resp, cand.body, ran)
                     [] decision = "hit-for-pass" -> HitForPassMarker
                     [] OTHER -> c]

\* The processing of a fresh (non-304) response `cand` against cache `c`.
Execute(c, cand) ==
    LET hook == afterSend(cand)
        ran == TransformRuns(hook)
        t == IF ran THEN bodyTransformFn(cand.body)
                    ELSE [threw |-> FALSE, bytes |-> cand.body]
        decision == EffectiveDecision(hook, t.threw)
    IN  [hook |-> hook, ran |-> ran, threw |-> t.threw,
         decision |-> decision,
         client |-> ClientResponse(cand, hook, t.threw, t.bytes),
         cache |-> CASE decision = "store" -> Entry(hook.resp, t.bytes, ran)
                     [] decision = "hit-for-pass" -> HitForPassMarker
                     [] OTHER -> c]

\* Faulty variant: the 304's (empty) body replaces the cached body.
UpdateInPlace_ReplacesBody(entry, resp) ==
    [entry EXCEPT !.ct = resp.ct, !.private = resp.private,
                  !.ttl = resp.ttl, !.fresh = TRUE, !.body = resp.body]

\* Faulty variant: the entry is marked fresh again but keeps its old lifetime.
UpdateInPlace_KeepsLifetime(entry, resp) ==
    [entry EXCEPT !.ct = resp.ct, !.private = resp.private, !.fresh = TRUE]

\* A 304 revalidates the existing entry: afterSend runs on the response and
\* the entry's headers and lifetime are updated in place; the body transform
\* is not applied and the cached body is not changed.  The source states
\* this of every 304, whatever value afterSend returns in `cache`.
UpdateInPlace(entry, resp) ==
    [entry EXCEPT !.ct = resp.ct, !.private = resp.private,
                  !.ttl = resp.ttl, !.fresh = TRUE]

Revalidate(c, cand) ==
    LET hook == afterSend(cand)
        updated == UpdateInPlace(c, hook.resp)
    IN  [hook |-> hook, ran |-> FALSE, threw |-> FALSE,
         decision |-> Decision(hook),
         client |-> Served(updated),
         cache |-> updated]

\* event.request as it arrives, and fetch()'s options: no Authorization
\* header, backend 'origin'.  `dispatches` counts how often the invocation's
\* request was handed to the backend.
NoRequest ==
    [auth |-> NoAuth, method |-> "GET", backend |-> "origin",
     conditional |-> FALSE, dispatches |-> 0]

\* Faulty variant: collapsing goes on while a hit-for-pass marker is there.
Collapsible_Always(c) == TRUE

\* A hit-for-pass marker disables request collapsing for the object; without
\* one, requests for the object wait for the request already on its way to
\* the backend.
Collapsible(c) == c.kind # "hit-for-pass"

InFlight(r) == pc[r] \in {"beforeSend", "origin"}
OtherInFlight(r) == \E q \in Reqs \ {r} : InFlight(q)

Outcome(path, cand, x) ==
    [path |-> path, cand |-> cand, hook |-> x.hook, ran |-> x.ran,
     threw |-> x.threw, decision |-> x.decision, client |-> x.client]

NoOutcome(path, client) ==
    [path |-> path, cand |-> NoResp, hook |-> NoHook, ran |-> FALSE,
     threw |-> FALSE, decision |-> "none", client |-> client]

Init ==
    /\ cache = Empty
    /\ pc = [r \in Reqs |-> "idle"]
    /\ event = [r \in Reqs |-> NoRequest]
    /\ out = [r \in Reqs |-> NoRequest]
    /\ started = 0
    /\ calls = [fetch |-> 0, beforeSend |-> 0, origin |-> 0,
                afterSend |-> 0, transform |-> 0]
    /\ last = NoOutcome("init", NoResp)

\* addEventListener("fetch", ...): handleRequest(event) starts and calls
\* fetch(event.request, {backend: 'origin', cacheOverride}).
Start(r) ==
    /\ pc[r] = "idle"
    /\ started < MaxRequests
    /\ started' = started + 1
    /\ pc' = [pc EXCEPT ![r] = "fetch"]
    /\ event' = [event EXCEPT ![r] = NoRequest]
    /\ out' = [out EXCEPT ![r] = event'[r]]
    /\ calls' = [calls EXCEPT !.fetch = @ + 1]
    /\ UNCHANGED <<cache, last>>

\* Faulty variant: the before-send callback runs for every fetch(), also
\* when the response comes from the cache.
CacheHit_RunsBeforeSend(r) ==
    /\ pc[r] = "fetch"
    /\ cache.kind = "entry" /\ cache.fresh
    /\ last' = NoOutcome("hit", Served(cache))
    /\ out' = [out EXCEPT ![r] = beforeSend(out[r])]
    /\ calls' = [calls EXCEPT !.beforeSend = @ + 1]
    /\ pc' = [pc EXCEPT ![r] = "idle"]
    /\ UNCHANGED <<cache, event, started>>

\* A fresh entry is served from the cache: no callback runs and the backend
\* is not invoked.  handleRequest returns the response.
CacheHit(r) ==
    /\ pc[r] = "fetch"
    /\ cache.kind = "entry" /\ cache.fresh
    /\ last' = NoOutcome("hit", Served(cache))
    /\ pc' = [pc EXCEPT ![r] = "idle"]
    /\ UNCHANGED <<cache, event, out, started, calls>>

\* Nothing fresh is cached: the request goes to the backend, as a conditional
\* request when a stale entry can be revalidated.  It does so alone unless a
\* hit-for-pass marker has disabled request collapsing.
CacheMiss(r) ==
    /\ pc[r] = "fetch"
    /\ ~(cache.kind = "entry" /\ cache.fresh)
    /\ ~(Collapsible(cache) /\ OtherInFlight(r))
    /\ out' = [out EXCEPT ![r].conditional = (cache.kind = "entry")]
    /\ pc' = [pc EXCEPT ![r] = "beforeSend"]
    /\ UNCHANGED <<cache, event, started, calls, last>>

\* Request collapsing: nothing fresh is cached and another request for the
\* object is on its way to the backend, so this one waits for its outcome.
Collapse(r) ==
    /\ pc[r] = "fetch"
    /\ ~(cache.kind = "entry" /\ cache.fresh)
    /\ Collapsible(cache) /\ OtherInFlight(r)
    /\ pc' = [pc EXCEPT ![r] = "collapsed"]
    /\ UNCHANGED <<cache, event, out, started, calls, last>>

\* The request waited for has completed: the waiting request looks the
\* object up again.
Resume(r) ==
    /\ pc[r] = "collapsed"
    /\ ~OtherInFlight(r)
    /\ pc' = [pc EXCEPT ![r] = "fetch"]
    /\ UNCHANGED <<cache, event, out, started, calls, last>>

\* The before-send callback runs just before the backend is invoked.
BeforeSend(r) ==
    /\ pc[r] = "beforeSend"
    /\ out' = [out EXCEPT ![r] =
                  [beforeSend(out[r]) EXCEPT !.dispatches = @ + 1]]
    /\ calls' = [calls EXCEPT !.beforeSend = @ + 1]
    /\ pc' = [pc EXCEPT ![r] = "origin"]
    /\ UNCHANGED <<cache, event, started, last>>

\* The backend answers with a fresh response: afterSend runs, the executor
\* applies its decision, and handleRequest returns backendResp.
OriginFresh(r) ==
    /\ pc[r] = "origin"
    /\ \E cand \in FreshResponses :
          LET x == Execute(cache, cand)
          IN  /\ cache' = x.cache
              /\ last' = Outcome("fresh", cand, x)
              /\ calls' = [calls EXCEPT !.origin = @ + 1,
                                        !.afterSend = @ + 1,
                                        !.transform =
                                            IF x.ran THEN @ + 1 ELSE @]
    /\ pc' = [pc EXCEPT ![r] = "idle"]
    /\ UNCHANGED <<event, out, started>>

\* The backend answers a conditional request with 304 Not Modified.
OriginNotModified(r) ==
    /\ pc[r] = "origin"
    /\ out[r].conditional
    /\ cache.kind = "entry"
    /\ \E cand \in NotModifiedResponses :
          LET x == Revalidate(cache, cand)
          IN  /\ cache' = x.cache
              /\ last' = Outcome("notModified", cand, x)
              /\ calls' = [calls EXCEPT !.origin = @ + 1,
                                        !.afterSend = @ + 1]
    /\ pc' = [pc EXCEPT ![r] = "idle"]
    /\ UNCHANGED <<event, out, started>>

\* Faulty variant: handleRequest catches the rejection and sends the request
\* again.
TransportError_Retry(r) ==
    /\ pc[r] = "origin"
    /\ pc' = [pc EXCEPT ![r] = "beforeSend"]
    /\ UNCHANGED <<cache, event, out, started, calls, last>>

\* Faulty variant: the failure is recorded in the cache as a hit-for-pass
\* marker.
TransportError_RecordsMarker(r) ==
    /\ pc[r] = "origin"
    /\ cache' = HitForPassMarker
    /\ last' = NoOutcome("transportError", NoResp)
    /\ pc' = [pc EXCEPT ![r] = "idle"]
    /\ UNCHANGED <<event, out, started, calls>>

\* The backend cannot be reached: fetch() rejects and so does handleRequest.
TransportError(r) ==
    /\ pc[r] = "origin"
    /\ last' = NoOutcome("transportError", NoResp)
    /\ pc' = [pc EXCEPT ![r] = "idle"]
    /\ UNCHANGED <<cache, event, out, started, calls>>

\* Time passes and the cached entry outlives its lifetime.
Expire ==
    /\ cache.kind = "entry" /\ cache.fresh
    /\ cache' = [cache EXCEPT !.fresh = FALSE]
    /\ UNCHANGED <<pc, event, out, started, calls, last>>

handleRequest(r) ==
    \/ Start(r)
    \/ CacheHit(r)
    \/ CacheMiss(r)
    \/ Collapse(r)
    \/ Resume(r)
    \/ BeforeSend(r)
    \/ OriginFresh(r)
    \/ OriginNotModified(r)
    \/ TransportError(r)

Next == (\E r \in Reqs : handleRequest(r)) \/ Expire

Spec == Init /\ [][Next]_vars

(***************************************************************************)
(* Properties.                                                              *)
(***************************************************************************)
\* A step in which some invocation has its origin answer processed.
OriginAnswered == \E r \in Reqs : pc[r] = "origin" /\ pc'[r] = "idle"
FreshHandled == OriginAnswered /\ last'.path = "fresh"
NotModifiedHandled == OriginAnswered /\ last'.path = "notModified"

\* The last completed request had an origin response processed by afterSend.
LastFromOrigin == last.path \in {"fresh", "notModified"}

\* C1: processing a 304 revalidation response for a key with a cached entry
\* never invokes the body transform, also when afterSend declared one, and
\* leaves the cached body bytes exactly as they were.
C1_NotModifiedKeepsBody ==
    [][NotModifiedHandled =>
          /\ cache.kind = "entry"
          /\ ~last'.ran
          /\ calls'.transform = calls.transform
          /\ cache'.kind = "entry"
          /\ cache'.body = cache.body]_vars

\* A 304 whose afterSend declared a transform was processed for an entry
\* that holds a body.
C1_Witness ==
    /\ last.path = "notModified"
    /\ last.hook.bodyTransformFn
    /\ cache.kind = "entry"
    /\ cache.body = "<div>Ann Lee</div>"

\* C2: a response that carries my-private-header gets cache = 'uncacheable'
\* (hit-for-pass) from afterSend, whatever its Content-Type.
C2_PrivateIsHitForPass ==
    (LastFromOrigin /\ last.cand.private) =>
        /\ last.hook.cache = CacheUncacheable
        /\ last.decision = "hit-for-pass"

\* A private application/xml response, which alone would be skipped.
C2_Witness ==
    /\ last.path = "fresh"
    /\ last.cand.private
    /\ last.cand.ct = "application/xml"
    /\ last.hook.cache = CacheUncacheable

\* C3: for a response whose decision is skip or hit-for-pass the transform
\* is not invoked and no body is written to the cache; in particular an
\* application/json response with my-private-header has a transform declared
\* and hit-for-pass returned together, and the transform does not run.
C3_NoTransformUnlessStored ==
    [][OriginAnswered /\ last'.path \in {"fresh", "notModified"} =>
          /\ (last'.hook.cache \in {CacheFalse, CacheUncacheable}) =>
                /\ ~last'.ran
                /\ calls'.transform = calls.transform
                /\ cache'.kind = "entry" =>
                      (cache.kind = "entry" /\ cache'.body = cache.body)
          /\ (last'.cand.ct = "application/json" /\ last'.cand.private) =>
                /\ last'.hook.bodyTransformFn
                /\ last'.hook.cache = CacheUncacheable
                /\ ~last'.ran
                /\ calls'.transform = calls.transform
                /\ (last'.path = "fresh" => cache'.kind = "hit-for-pass")]_vars

\* A private application/json response was processed: transform declared,
\* not run, and only the marker is in the cache.
C3_Witness ==
    /\ last.path = "fresh"
    /\ last.cand.ct = "application/json"
    /\ last.cand.private
    /\ last.hook.bodyTransformFn
    /\ ~last.ran
    /\ cache.kind = "hit-for-pass"

\* C4: the Content-Type rewrite to text/html and the body transform are
\* never applied one without the other: the response returned to the caller
\* and the entry put in the cache have a Content-Type rewritten from
\* application/json exactly when their body went through the transform, for
\* every decision, and a revalidation that rewrites the Content-Type does so
\* on an entry whose body went through the transform.
C4_RewriteIffTransform ==
    /\ last.path = "fresh" =>
          ((last.cand.ct = "application/json" /\ last.client.ct = "text/html")
              <=> (last.ran /\ ~last.threw))
    /\ (last.path = "fresh" /\ last.decision = "store") =>
          ((last.cand.ct = "application/json" /\ cache.ct = "text/html")
              <=> cache.transformed)
    /\ (last.path = "notModified" /\ last.hook.bodyTransformFn) =>
          cache.transformed

\* C5: when the body of an application/json response that would be stored
\* cannot be parsed as JSON, the transform fails, the decision falls back to
\* skip and the cache is left exactly as it was.
C5_TransformFailureFailsClosed ==
    [][(/\ FreshHandled
        /\ last'.cand.ct = "application/json"
        /\ ~last'.cand.private
        /\ last'.cand.body = NotJson) =>
          /\ last'.ran
          /\ last'.threw
          /\ last'.decision = "skip"
          /\ cache' = cache]_vars

\* A transform failed and the cache holds no entry.
C5_Witness ==
    /\ last.path = "fresh"
    /\ last.threw
    /\ last.decision = "skip"
    /\ cache.kind = "none"

\* C6: a body-transform failure does not fail the request and the caller
\* receives the origin's response as it was sent: same body, same status.
C6_TransformFailureInvisible ==
    (/\ LastFromOrigin
     /\ last.cand.ct = "application/json"
     /\ ~last.cand.private
     /\ last.cand.body = NotJson) =>
        /\ last.path = "fresh"
        /\ last.threw
        /\ last.client.body = last.cand.body
        /\ last.client.status = last.cand.status
        /\ last.client = last.cand

\* A transform failed and the caller holds the untransformed JSON response.
C6_Witness ==
    /\ last.threw
    /\ last.client.body = NotJson
    /\ last.client.ct = "application/json"
    /\ last.client.status = 200

\* C7 as claimed: after afterSend the lifetime is 67 for image, 321 for
\* text/html and the default 2 for every other Content-Type, the absent one
\* included, with or without my-private-header.
C7_TtlFromTable ==
    LastFromOrigin =>
        last.hook.resp.ttl =
            CASE last.cand.ct = "image" -> 67
              [] last.cand.ct = "text/html" -> 321
              [] OTHER -> 2

\* C7 as amended: the same, except that for application/xml afterSend
\* assigns no lifetime and the response keeps the one it arrived with.
C7_TtlFromTableExceptXml ==
    LastFromOrigin =>
        last.hook.resp.ttl =
            CASE last.cand.ct = "image" -> 67
              [] last.cand.ct = "text/html" -> 321
              [] last.cand.ct = "application/xml" -> last.cand.ttl
              [] OTHER -> 2

\* A private response without Content-Type got the default lifetime.
C7_Witness ==
    /\ last.path = "fresh"
    /\ last.cand.ct = NoCT
    /\ last.cand.private
    /\ last.cand.ttl = 3600
    /\ last.hook.resp.ttl = 2

\* Nothing of the processed response entered the cache: a fresh response left
\* the cache as it was, a 304 created no entry and wrote no body.
NothingPersisted ==
    IF last'.path = "fresh"
    THEN cache' = cache
    ELSE cache'.kind = cache.kind /\ cache'.body = cache.body

C9_UnsetMeansStored ==
    LastFromOrigin =>
        /\ (last.hook.cache = CacheUnset) <=>
              (~last.cand.private /\ last.cand.ct # "application/xml")
        /\ (last.hook.cache = CacheUnset) =>
              /\ cache.kind = "entry"
              /\ cache.ttl = last.hook.resp.ttl
        /\ (last.path = "fresh" /\ last.cand.ct = "text/html"
                /\ ~last.cand.private) =>
              /\ cache.kind = "entry"
              /\ cache.ttl = 321
              /\ cache.ct = "text/html"
              /\ cache.body = last.cand.body

\* C9 as amended: the same, but a response whose declared transform fails
\* is not stored.
C9_UnsetMeansStoredUnlessTransformFails ==
    LastFromOrigin =>
        /\ (last.hook.cache = CacheUnset) <=>
              (~last.cand.private /\ last.cand.ct # "application/xml")
        /\ (last.hook.cache = CacheUnset /\ ~last.threw) =>
              /\ cache.kind = "entry"
              /\ cache.ttl = last.hook.resp.ttl
        /\ (last.path = "fresh" /\ last.cand.ct = "text/html"
                /\ ~last.cand.private) =>
              /\ cache.kind = "entry"
              /\ cache.ttl = 321
              /\ cache.ct = "text/html"
              /\ cache.body = last.cand.body

\* A text/html response without the header is in the cache with lifetime
\* 321 and the body the origin sent.
C9_Witness ==
    /\ last.path = "fresh"
    /\ last.cand.ct = "text/html"
    /\ ~last.cand.private
    /\ last.hook.cache = CacheUnset
    /\ cache.kind = "entry"
    /\ cache.ttl = 321
    /\ cache.body = JsonEmpty

\* C10: on a 304 afterSend runs, and the existing entry gets the headers and
\* the lifetime afterSend produced for the 304 and nothing else: it stays
\* the same entry, with the same body.
C10_NotModifiedUpdatesInPlace ==
    [][NotModifiedHandled =>
          /\ calls'.afterSend = calls.afterSend + 1
          /\ cache.kind = "entry"
          /\ cache'.kind = "entry"
          /\ cache'.ct = last'.hook.resp.ct
          /\ cache'.private = last'.hook.resp.private
          /\ cache'.ttl = last'.hook.resp.ttl
          /\ (last'.cand.ct = "text/html" => cache'.ttl = 321)
          /\ (last'.cand.ct = "image" => cache'.ttl = 67)
          /\ cache'.body = cache.body
          /\ cache'.status = cache.status
          /\ cache'.transformed = cache.transformed]_vars

\* An entry stored as text/html was revalidated by a 304 of type image: new
\* Content-Type and lifetime, the body it had.
C10_Witness ==
    /\ last.path = "notModified"
    /\ last.cand.ct = "image"
    /\ cache.kind = "entry"
    /\ cache.ct = "image"
    /\ cache.ttl = 67
    /\ cache.body = JsonAnn

\* C11: for a fresh response that is stored and for which afterSend declared
\* a transform, the transform runs exactly once, on the body the origin
\* sent, and the bytes it returns are the body of the cached entry.
C11_TransformOnceOnStore ==
    [][(/\ FreshHandled
        /\ last'.hook.bodyTransformFn
        /\ last'.decision = "store") =>
          /\ last'.ran
          /\ calls'.transform = calls.transform + 1
          /\ ~bodyTransformFn(last'.cand.body).threw
          /\ cache'.kind = "entry"
          /\ cache'.transformed
          /\ cache'.body = bodyTransformFn(last'.cand.body).bytes
          /\ cache'.body # last'.cand.body]_vars

\* The first transform of the behaviour ran on "{}" and its output is cached.
C11_Witness ==
    /\ last.path = "fresh"
    /\ last.hook.bodyTransformFn
    /\ last.decision = "store"
    /\ last.cand.body = JsonEmpty
    /\ calls.transform = 1
    /\ cache.body = "<div>undefined undefined</div>"

\* C12: a request that has been dispatched to the backend 'origin' carries
\* the Authorization header beforeSend sets, and every dispatch follows a
\* completed run of beforeSend.
C12_AuthorizationBeforeDispatch ==
    /\ \A r \in Reqs :
          pc[r] = "origin" =>
              /\ out[r].auth = "Foo"
              /\ out[r].backend = "origin"
    /\ calls.origin + Cardinality({r \in Reqs : pc[r] = "origin"})
          <= calls.beforeSend

\* The first request of the behaviour is with the origin, with the header.
C12_Witness ==
    /\ \E r \in Reqs : pc[r] = "origin" /\ out[r].auth = "Foo"
    /\ calls.beforeSend = 1
    /\ calls.origin = 0

\* C13: a fresh application/json response without my-private-header whose
\* body is {"firstName": F, "lastName": L} is stored with body
\* <div>F L</div> and Content-Type text/html.
C13_JsonStoredAsHtml ==
    (/\ last.path = "fresh"
     /\ last.cand.ct = "application/json"
     /\ ~last.cand.private
     /\ last.cand.body \in {JsonAnn, JsonBob}) =>
        /\ cache.kind = "entry"
        /\ cache.ct = "text/html"
        /\ last.cand.body = JsonAnn => cache.body = "<div>Ann Lee</div>"
        /\ last.cand.body = JsonBob => cache.body = "<div>Bob Ray</div>"

\* Scenario 3 of the specification, and the entry has since gone stale.
C13_Witness ==
    /\ last.path = "fresh"
    /\ last.cand.ct = "application/json"
    /\ last.cand.body = JsonAnn
    /\ cache.kind = "entry"
    /\ ~cache.fresh
    /\ cache.ct = "text/html"
    /\ cache.body = "<div>Ann Lee</div>"

\* C14: every inbound request invokes handleRequest once, which calls
\* fetch() once, with backend 'origin'; an invocation hands its request to
\* the backend at most once, and exactly once when nothing fresh is cached.
C14_OneFetchPerRequest ==
    /\ calls.fetch = started
    /\ calls.beforeSend <= calls.fetch
    /\ calls.origin <= calls.beforeSend
    /\ \A r \in Reqs :
          /\ out[r].backend = "origin"
          /\ out[r].dispatches <= 1
          /\ pc[r] = "origin" => out[r].dispatches = 1
          /\ pc[r] \in {"fetch", "collapsed", "beforeSend"} =>
                out[r].dispatches = 0

\* Three requests were handled with three fetch() calls: two went to the
\* origin and the last was served from the cache.
C14_Witness ==
    /\ started = 3
    /\ calls.fetch = 3
    /\ calls.beforeSend = 2
    /\ last.path = "hit"
    /\ \A r \in Reqs : pc[r] = "idle"

\* C15: a request that fails (the origin cannot be reached, or a callback
\* raises) is aborted with the failure surfaced: no response is returned,
\* and the cache holds exactly what it held, with no new entry and no
\* hit-for-pass marker.
C15_FailureLeavesCacheUnchanged ==
    [][(/\ \E r \in Reqs : pc[r] # "idle" /\ pc'[r] = "idle"
        /\ last'.path \notin {"hit", "fresh", "notModified"}) =>
          /\ last'.path = "transportError"
          /\ last'.client = NoResp
          /\ cache' = cache
          /\ calls' = calls]_vars

\* The origin could not be reached while an entry was cached; the entry is
\* still there.
C15_Witness ==
    /\ last.path = "transportError"
    /\ last.client = NoResp
    /\ cache.kind = "entry"
    /\ calls.beforeSend = 2
    /\ calls.origin = 1

\* C16: the origin receives the request with the Authorization header
\* beforeSend set, event.request never shows it, and beforeSend changes
\* nothing else of the outbound request.
C16_BeforeSendOnlySetsAuthorization ==
    \A r \in Reqs :
        /\ event[r].auth = NoAuth
        /\ event[r] = NoRequest
        /\ pc[r] = "origin" =>
              /\ out[r].auth = "Foo"
              /\ out[r].method = event[r].method
              /\ out[r].backend = event[r].backend

\* A conditional request is with the origin, with the header, and
\* event.request is without it.
C16_Witness ==
    \E r \in Reqs :
        /\ pc[r] = "origin"
        /\ out[r].conditional
        /\ out[r].auth = "Foo"
        /\ event[r].auth = NoAuth

\* C17: what afterSend returns and does to the response is fixed by the
\* response's Content-Type and the presence of my-private-header alone, in
\* every state of the cache and every interleaving of requests: the
\* decision, the lifetime it assigns (none for application/xml), whether a
\* transform is declared, and the resulting Content-Type.
C17_OutcomeFromHeadersOnly ==
    LastFromOrigin =>
        /\ last.hook.cache =
              IF last.cand.private THEN "uncacheable"
              ELSE IF last.cand.ct = "application/xml" THEN "false"
              ELSE "undefined"
        /\ last.hook.bodyTransformFn = (last.cand.ct = "application/json")
        /\ last.hook.resp.ct =
              IF last.cand.ct = "application/json" THEN "text/html"
              ELSE last.cand.ct
        /\ last.hook.resp.ttl =
              CASE last.cand.ct = "image" -> 67
                [] last.cand.ct = "text/html" -> 321
                [] last.cand.ct = "application/xml" -> last.cand.ttl
                [] OTHER -> 2
        /\ last.hook.resp.private = last.cand.private
        /\ last.hook.resp.body = last.cand.body
        /\ last.hook.resp.status = last.cand.status

\* afterSend ran for the second time, on a text/plain response whose body is
\* JSON, while another request was with the origin.
C17_Witness ==
    /\ LastFromOrigin
    /\ calls.afterSend = 2
    /\ \E r \in Reqs : pc[r] = "origin"
    /\ last.cand.ct = "text/plain"
    /\ last.cand.body = JsonAnn
    /\ ~last.hook.bodyTransformFn

\* C18: the callbacks run only when the cache goes to the backend.  A
\* request served from a fresh entry runs neither callback and reaches no
\* origin; beforeSend runs only in the step that hands a request to the
\* origin, and afterSend only in a step that receives the origin's response.
C18_CallbacksOnlyOnBackendPath ==
    [][/\ (\E r \in Reqs : pc[r] = "fetch" /\ pc'[r] = "idle") =>
             /\ cache.kind = "entry" /\ cache.fresh
             /\ last'.path = "hit"
             /\ last'.client = Served(cache)
             /\ calls' = calls
             /\ cache' = cache
             /\ out' = out
       /\ calls'.beforeSend # calls.beforeSend =>
             /\ calls'.beforeSend = calls.beforeSend + 1
             /\ \E r \in Reqs : pc[r] = "beforeSend" /\ pc'[r] = "origin"
       /\ calls'.afterSend # calls.afterSend =>
             /\ calls'.afterSend = calls.afterSend + 1
             /\ calls'.origin = calls.origin + 1
             /\ OriginAnswered
       /\ calls'.afterSend <= calls'.beforeSend]_vars

\* The second request was served from the entry the first one stored: one
\* run of each callback, one origin response, two fetch() calls.
C18_Witness ==
    /\ last.path = "hit"
    /\ started = 2
    /\ calls.fetch = 2
    /\ calls.beforeSend = 1
    /\ calls.afterSend = 1
    /\ calls.origin = 1

\* C19: while a hit-for-pass marker is in the cache a request is never
\* collapsed onto another one: it goes to the origin itself.  The marker
\* goes away only when an origin response is stored, which puts an entry in
\* its place; without a marker a request does not go to the origin while
\* another one is in flight.
C19_HitForPassDisablesCollapsing ==
    [][/\ \A r \in Reqs :
             (pc[r] = "fetch" /\ pc'[r] # "fetch"
                 /\ cache.kind = "hit-for-pass") => pc'[r] = "beforeSend"
       /\ \A r \in Reqs :
             (pc[r] = "fetch" /\ pc'[r] = "collapsed") =>
                 /\ cache.kind # "hit-for-pass"
                 /\ \E q \in Reqs \ {r} : pc[q] \in {"beforeSend", "origin"}
       /\ \A r \in Reqs :
             (pc[r] = "fetch" /\ pc'[r] = "beforeSend"
                 /\ \E q \in Reqs \ {r} : pc[q] \in {"beforeSend", "origin"})
                => cache.kind = "hit-for-pass"
       /\ (cache.kind = "hit-for-pass" /\ cache'.kind # "hit-for-pass") =>
             /\ FreshHandled
             /\ last'.decision = "store"
             /\ cache'.kind = "entry"]_vars

\* Two requests are with the origin at the same time, under a marker.
C19_Witness ==
    /\ cache.kind = "hit-for-pass"
    /\ \A r \in Reqs : pc[r] = "origin"

\* C20: the lifetime is chosen from the Content-Type the origin sent, before
\* the rewrite: an application/json response gets 2 and leaves afterSend as
\* text/html, while afterSend applied to that result gives 321 and declares
\* no transform.
C20_LifetimeFromOriginalContentType ==
    (LastFromOrigin /\ last.cand.ct = "application/json") =>
        /\ last.hook.resp.ttl = 2
        /\ last.hook.resp.ct = "text/html"
        /\ afterSend(last.hook.resp).resp.ttl = 321
        /\ afterSend(last.hook.resp).resp.ct = "text/html"
        /\ ~afterSend(last.hook.resp).bodyTransformFn
        /\ (last.decision = "store" /\ cache.kind = "entry") =>
              (cache.ct = "text/html" /\ cache.ttl = 2)

\* A stored text/html entry with lifetime 2: the transformed JSON response.
C20_Witness ==
    /\ cache.kind = "entry"
    /\ cache.fresh
    /\ cache.transformed
    /\ cache.ct = "text/html"
    /\ cache.ttl = 2
    /\ last.path = "fresh"
    /\ last.cand.ct = "application/json"

=============================================================================
